---------------------------- MODULE Spec2Model ----------------------------
(***************************************************************************)
(* Model of scripts/get_data.py (class GetData): one invocation of         *)
(* qlib_data or csv_data_cn, step by step: file name resolution, mkdir,    *)
(* streaming GET, chunked write, unzip, trailing archive removal.          *)
(*                                                                         *)
(* Text is a sequence of one-character strings, so that lower(), format()  *)
(* and the regular expression work on characters.  A file's content is a   *)
(* sequence of bytes.  A zip archive is abstracted to one byte per entry   *)
(* followed by one end-of-central-directory byte (EOCD): a content is a    *)
(* readable archive iff it ends with its only EOCD byte.                   *)
(***************************************************************************)
EXTENDS Integers, Sequences, FiniteSets, TLC

VARIABLES
    installed,          \* the installed qlib release: [pre, rel, suf]
    call,               \* the invocation: [op, name, region, interval, version, delete_old]
    delete_zip_file,    \* self.delete_zip_file
    remote_status,      \* the status the remote answers with
    body,               \* the response body the remote streams
    pc,                 \* position in the run
    error,              \* the exception that ended the run (with the call that
                        \* raised it, for OSError), "none" otherwise
    qlib_version,       \* local qlib_version of qlib_data (the compatibility tag)
    file_name,          \* file_name of _download_data
    delete_old,         \* delete_old of _download_data
    target_dir_exists,  \* the target directory exists
    archive,            \* target_dir/file_name on disk: [exists, bytes]
    tree,               \* files under target_dir, by path: "absent", "old", "new"
    initial,            \* the filesystem before the run: [dir, archive, tree]
    resp_status_code,   \* resp.status_code, 0 before a response
    gets,               \* GET requests issued
    sent,               \* bytes of body already yielded by iter_content
    fp_open,            \* the handle fp is open
    namelist,           \* zp.namelist()
    extracted,          \* entries of namelist extracted so far
    p_bar               \* the download progress bar's count

vars == <<installed, call, delete_zip_file, remote_status, body, pc, error,
          qlib_version, file_name, delete_old, target_dir_exists, archive,
          tree, initial, resp_status_code, gets, sent, fp_open, namelist,
          extracted, p_bar>>

---------------------------------------------------------------------------
(* Bounds *)

MaxBody == 3        \* longest response body, in bytes
MaxRelLen == 4      \* most numeric components of the installed release

---------------------------------------------------------------------------
(* Text *)

Digits == <<"0", "1", "2", "3", "4", "5", "6", "7", "8", "9">>
UpperCase == <<"A", "B", "C", "D", "E", "F", "G", "H", "I", "J", "K", "L", "M",
               "N", "O", "P", "Q", "R", "S", "T", "U", "V", "W", "X", "Y", "Z">>
LowerCase == <<"a", "b", "c", "d", "e", "f", "g", "h", "i", "j", "k", "l", "m",
               "n", "o", "p", "q", "r", "s", "t", "u", "v", "w", "x", "y", "z">>

IsDigit(c) == \E i \in 1..10 : Digits[i] = c
DigitVal(c) == (CHOOSE i \in 1..10 : Digits[i] = c) - 1

\* str.lower() on one character and on a text
LowerChar(c) ==
    IF \E i \in 1..26 : UpperCase[i] = c
    THEN LowerCase[CHOOSE i \in 1..26 : UpperCase[i] = c]
    ELSE c
lower(s) == [i \in 1..Len(s) |-> LowerChar(s[i])]

\* decimal rendering of a natural number
RECURSIVE str(_)
str(n) == IF n < 10 THEN <<Digits[n + 1]>>
          ELSE str(n \div 10) \o <<Digits[(n % 10) + 1]>>

RECURSIVE Join(_)
Join(rel) == IF Len(rel) = 1 THEN str(rel[1])
             ELSE str(rel[1]) \o <<".">> \o Join(Tail(rel))

\* qlib.__version__ of the installed release
qlib__version__(inst) == inst.pre \o Join(inst.rel) \o inst.suf

---------------------------------------------------------------------------
(* re.search(r"(\d+)(.)(\d+)(.)(\d+)", s)[0] *)

AllDigits(s, i, j) == \A k \in i..j : IsDigit(s[k])

\* <<i, a, b, c>>: a match starting at i whose three digit groups have
\* lengths a, b, c, each followed (the last excepted) by one arbitrary character
Matches(s) ==
    UNION { UNION { UNION { { <<i, a, b, c>> :
        c \in { c0 \in 1..(Len(s) - i - a - b - 1) :
                  AllDigits(s, i + a + b + 2, i + a + b + c0 + 1) } } :
        b \in { b0 \in 1..(Len(s) - i - a - 2) : AllDigits(s, i + a + 1, i + a + b0) } } :
        a \in { a0 \in 1..(Len(s) - i - 3) : AllDigits(s, i, i + a0 - 1) } } :
        i \in 1..Len(s) }

\* leftmost start, then each group as long as backtracking allows
Preferred(m, n) ==
    \/ m[1] < n[1]
    \/ m[1] = n[1] /\ m[2] > n[2]
    \/ m[1] = n[1] /\ m[2] = n[2] /\ m[3] > n[3]
    \/ m[1] = n[1] /\ m[2] = n[2] /\ m[3] = n[3] /\ m[4] > n[4]

re_search(s) ==
    IF Matches(s) = {} THEN [found |-> FALSE, group0 |-> <<>>]
    ELSE LET m == CHOOSE m \in Matches(s) :
                      \A n \in Matches(s) : n = m \/ Preferred(m, n)
         IN [found |-> TRUE,
             group0 |-> SubSeq(s, m[1], m[1] + m[2] + m[3] + m[4] + 1)]

---------------------------------------------------------------------------
(* packaging: version.parse and SpecifierSet("<=0.6.1") *)

\* a text of digits and dots is a release; anything else is not handled here
IsRelease(s) == \A k \in 1..Len(s) : IsDigit(s[k]) \/ s[k] = "."

RECURSIVE parse_release(_, _, _, _)
parse_release(s, i, cur, acc) ==
    IF i > Len(s) THEN Append(acc, cur)
    ELSE IF s[i] = "." THEN parse_release(s, i + 1, 0, Append(acc, cur))
    ELSE parse_release(s, i + 1, cur * 10 + DigitVal(s[i]), acc)

p_version_parse(s) == parse_release(s, 1, 0, <<>>)

\* Version._key drops the trailing zeros of the release
RECURSIVE StripZeros(_)
StripZeros(r) == IF Len(r) > 0 /\ r[Len(r)] = 0
                 THEN StripZeros(SubSeq(r, 1, Len(r) - 1)) ELSE r

\* tuple comparison: first difference decides, a proper prefix is smaller
RECURSIVE TupleLE(_, _)
TupleLE(x, y) ==
    IF Len(x) = 0 THEN TRUE
    ELSE IF Len(y) = 0 THEN FALSE
    ELSE IF x[1] # y[1] THEN x[1] < y[1]
    ELSE TupleLE(Tail(x), Tail(y))

TupleLT(x, y) == TupleLE(x, y) /\ x # y

SpecifierBaseline == <<0, 6, 1>>

InSpecifierSet_lt(v) == TupleLT(StripZeros(v), StripZeros(SpecifierBaseline))
\* v in SpecifierSet("<=0.6.1")
InSpecifierSet(v) == TupleLE(StripZeros(v), StripZeros(SpecifierBaseline))

TagOld == <<"0", ".", "6", ".", "1">>
TagLatest == <<"l", "a", "t", "e", "s", "t">>


---------------------------------------------------------------------------
(* File names *)

Underscore == <<"_">>
DotZip == <<".", "z", "i", "p">>

\* QLIB_DATA_NAME.format(dataset_name=, region=, interval=, qlib_version=, data_version=)
QLIB_DATA_NAME(dataset_name, region, interval, tag, data_version) ==
    dataset_name \o Underscore \o region \o Underscore \o interval
        \o Underscore \o tag \o Underscore \o data_version \o DotZip

\* the tag qlib_data selects from the matched version text
select_qlib_version(_version) ==
    IF InSpecifierSet(p_version_parse(_version)) THEN TagOld ELSE TagLatest

qlib_file_name_nolower(c, tag) ==
    QLIB_DATA_NAME(c.name, lower(c.region), lower(c.interval), tag, c.version)
\* the file name qlib_data passes to _download_data
qlib_file_name(c, tag) ==
    lower(QLIB_DATA_NAME(c.name, lower(c.region), lower(c.interval), tag, c.version))

csv_file_name == <<"c", "s", "v", "_", "d", "a", "t", "a", "_", "c", "n">> \o DotZip

default_delete_old_false == FALSE
\* the default of _download_data's delete_old parameter
default_delete_old == TRUE

---------------------------------------------------------------------------
(* Filesystem and archive *)

CategoryNames == <<"features", "calendars", "instruments">>

\* the entries an archive can hold, by entry byte
EntryPath == <<[dir |-> "features", name |-> "a.bin"],
               [dir |-> "calendars", name |-> "day.txt"],
               [dir |-> "instruments", name |-> "all.txt"]>>
Paths == {EntryPath[i] : i \in 1..Len(EntryPath)}

EOCD == 0
Bytes == 0..Len(EntryPath)

\* zipfile.ZipFile(path, "r") succeeds on this content
IsZip(bytes) ==
    /\ Len(bytes) >= 1
    /\ bytes[Len(bytes)] = EOCD
    /\ \A k \in 1..(Len(bytes) - 1) : bytes[k] # EOCD

\* zp.namelist(), in the archive's listing order
zip_namelist(bytes) == [k \in 1..(Len(bytes) - 1) |-> EntryPath[bytes[k]]]

NoFile == [exists |-> FALSE, bytes |-> <<>>]

open_ab(f) == [exists |-> TRUE, bytes |-> f.bytes]
\* target_path.open("wb"): creates the file or truncates it
open_wb(f) == [exists |-> TRUE, bytes |-> <<>>]

\* fp.write(chuck)
fp_write(f, chuck) == [f EXCEPT !.bytes = f.bytes \o chuck]

\* zp.extract(_file, target_dir): writes the entry, replacing what was there
zp_extract(t, _file) == [t EXCEPT ![_file] = "new"]

\* _delete_qlib_data(file_dir): rmtree of the three category directories.
\* No step of the run calls it.
_delete_qlib_data(t) ==
    [p \in Paths |->
        IF \E i \in 1..Len(CategoryNames) : CategoryNames[i] = p.dir
        THEN "absent" ELSE t[p]]

raise_for_status_4xx(status) == status >= 400
\* resp.status_code != 200
raise_for_status(status) == status # 200

chuck_size == 1024

Min(x, y) == IF x < y THEN x ELSE y

---------------------------------------------------------------------------
(* Inputs *)

T_qlib_data == <<"q", "l", "i", "b", "_", "d", "a", "t", "a">>
T_QLIB_DATA == <<"Q", "L", "I", "B", "_", "D", "A", "T", "A">>
T_Qlib_Data_Simple == <<"Q", "l", "i", "b", "_", "D", "a", "t", "a", "_",
                        "S", "i", "m", "p", "l", "e">>
T_cn == <<"c", "n">>
T_CN == <<"C", "N">>
T_us == <<"u", "s">>
T_Us == <<"U", "s">>
T_1d == <<"1", "d">>
T_1D == <<"1", "D">>
T_v1 == <<"v", "1">>
T_V1 == <<"V", "1">>
T_latest == <<"l", "a", "t", "e", "s", "t">>
T_Latest == <<"L", "a", "t", "e", "s", "t">>
T_dev == <<".", "d", "e", "v">>

\* the defaults of qlib_data's parameters
QlibCall(d) == [op |-> "qlib_data", name |-> T_qlib_data, region |-> T_cn,
                interval |-> T_1d, version |-> T_latest, delete_old |-> d]
\* csv_data_cn takes none of them
CsvCall == [op |-> "csv_data_cn", name |-> <<>>, region |-> <<>>,
            interval |-> <<>>, version |-> <<>>, delete_old |-> default_delete_old]

DefaultCalls == {QlibCall(TRUE), QlibCall(FALSE), CsvCall}

AllQlibCalls ==
    [op : {"qlib_data"},
     name : {T_qlib_data, T_QLIB_DATA, T_Qlib_Data_Simple},
     region : {T_cn, T_CN, T_us, T_Us},
     interval : {T_1d, T_1D},
     version : {T_v1, T_V1, T_latest, T_Latest},
     delete_old : {TRUE}]

Release(r) == [pre |-> <<>>, rel |-> r, suf |-> <<>>]

Components == {0, 1, 6, 7, 10}
SeqsUpTo(S, n) == UNION {[1..k -> S] : k \in 0..n}
AllInstalled ==
    [pre : {<<>>, <<"v">>},
     rel : SeqsUpTo(Components, MaxRelLen) \ {<<>>},
     suf : {<<>>, T_dev}]

Statuses == {200, 204, 404}
Bodies == SeqsUpTo(Bytes, MaxBody)
OldArchive == [exists |-> TRUE, bytes |-> <<2, EOCD>>]

\* the target directory before the run: missing, or holding any of the
\* category files and possibly an archive of the requested name
InitialFs ==
    {[dir |-> FALSE, archive |-> NoFile, tree |-> [p \in Paths |-> "absent"]]}
    \cup [dir : {TRUE}, archive : {NoFile, OldArchive},
          tree : [Paths -> {"absent", "old"}]]

InitRun(fs) ==
    /\ initial = fs
    /\ target_dir_exists = fs.dir
    /\ archive = fs.archive
    /\ tree = fs.tree
    /\ pc = "start"
    /\ error = "none"
    /\ qlib_version = <<>>
    /\ file_name = <<>>
    /\ delete_old = FALSE
    /\ resp_status_code = 0
    /\ gets = 0
    /\ sent = 0
    /\ fp_open = FALSE
    /\ namelist = <<>>
    /\ extracted = 0
    /\ p_bar = 0

\* every filesystem, response and flag, default arguments
Init ==
    /\ installed \in {Release(<<0, 6, 1>>)}
    /\ call \in DefaultCalls
    /\ delete_zip_file \in BOOLEAN
    /\ remote_status \in Statuses
    /\ body \in Bodies
    /\ \E fs \in InitialFs : InitRun(fs)

SmallFs == [dir |-> FALSE, archive |-> NoFile,
            tree |-> [p \in Paths |-> "absent"]]
SmallBodies == {<<1, EOCD>>}

\* every installed release, both operations with default arguments, one
\* filesystem
InitVersions ==
    /\ installed \in AllInstalled
    /\ call \in {QlibCall(TRUE), CsvCall}
    /\ delete_zip_file = FALSE
    /\ remote_status = 200
    /\ body \in SmallBodies
    /\ InitRun(SmallFs)

\* every argument combination, releases around the baseline, one filesystem
InitNames ==
    /\ installed \in {Release(<<0, 6, 0>>), Release(<<0, 6, 1>>),
                      Release(<<0, 7, 0>>), Release(<<0, 6>>)}
    /\ call \in AllQlibCalls \cup {CsvCall}
    /\ delete_zip_file \in BOOLEAN
    /\ remote_status \in {200, 404}
    /\ body \in SmallBodies
    /\ InitRun(SmallFs)

---------------------------------------------------------------------------
(* Steps *)

Raise(e) == pc' = "raised" /\ error' = e

\* qlib_data, lines 106-118, up to the call of _download_data
qlib_data ==
    /\ pc = "start"
    /\ call.op = "qlib_data"
    /\ LET m == re_search(qlib__version__(installed)) IN
         IF ~m.found
         THEN /\ Raise("TypeError")
              /\ UNCHANGED <<qlib_version, file_name, delete_old>>
         ELSE IF ~IsRelease(m.group0)
         THEN /\ Raise("InvalidVersion")
              /\ UNCHANGED <<qlib_version, file_name, delete_old>>
         ELSE /\ qlib_version' = select_qlib_version(m.group0)
              /\ file_name' = qlib_file_name(call, qlib_version')
              /\ delete_old' = call.delete_old
              /\ pc' = "download"
              /\ error' = error
    /\ UNCHANGED <<installed, call, delete_zip_file, remote_status, body,
                   target_dir_exists, archive, tree, initial, resp_status_code,
                   gets, sent, fp_open, namelist, extracted, p_bar>>

\* csv_data_cn, lines 134-135
csv_data_cn ==
    /\ pc = "start"
    /\ call.op = "csv_data_cn"
    /\ file_name' = csv_file_name
    /\ delete_old' = default_delete_old
    /\ pc' = "download"
    /\ UNCHANGED <<installed, call, delete_zip_file, remote_status, body, error,
                   qlib_version, target_dir_exists, archive, tree, initial,
                   resp_status_code, gets, sent, fp_open, namelist, extracted,
                   p_bar>>

Mkdir_DeleteFirst ==
    /\ pc = "download"
    /\ target_dir_exists' = TRUE
    /\ tree' = IF delete_old THEN _delete_qlib_data(tree) ELSE tree
    /\ pc' = "get"
    /\ UNCHANGED <<installed, call, delete_zip_file, remote_status, body, error,
                   qlib_version, file_name, delete_old, archive, initial,
                   resp_status_code, gets, sent, fp_open, namelist, extracted,
                   p_bar>>

\* target_dir.mkdir(exist_ok=True, parents=True), lines 32-33
Mkdir ==
    /\ pc = "download"
    /\ target_dir_exists' = TRUE
    /\ pc' = "get"
    /\ UNCHANGED <<installed, call, delete_zip_file, remote_status, body, error,
                   qlib_version, file_name, delete_old, archive, tree, initial,
                   resp_status_code, gets, sent, fp_open, namelist, extracted,
                   p_bar>>

\* the same call raising (the directory cannot be created)
MkdirFail ==
    /\ pc = "download"
    /\ ~target_dir_exists
    /\ Raise("OSError:mkdir")
    /\ UNCHANGED <<installed, call, delete_zip_file, remote_status, body,
                   qlib_version, file_name, delete_old, target_dir_exists,
                   archive, tree, initial, resp_status_code, gets, sent,
                   fp_open, namelist, extracted, p_bar>>

\* requests.get(url, stream=True) and the status check, lines 38-40
Get ==
    /\ pc = "get"
    /\ gets' = gets + 1
    /\ resp_status_code' = remote_status
    /\ IF raise_for_status(resp_status_code')
       THEN Raise("HTTPError")
       ELSE pc' = "open" /\ error' = error
    /\ UNCHANGED <<installed, call, delete_zip_file, remote_status, body,
                   qlib_version, file_name, delete_old, target_dir_exists,
                   archive, tree, initial, sent, fp_open, namelist, extracted,
                   p_bar>>

\* requests.get raising: no response arrives
GetFail ==
    /\ pc = "get"
    /\ gets' = gets + 1
    /\ Raise("ConnectionError")
    /\ UNCHANGED <<installed, call, delete_zip_file, remote_status, body,
                   qlib_version, file_name, delete_old, target_dir_exists,
                   archive, tree, initial, resp_status_code, sent, fp_open,
                   namelist, extracted, p_bar>>

\* target_path.open("wb"), line 48
Open ==
    /\ pc = "open"
    /\ archive' = open_wb(archive)
    /\ fp_open' = TRUE
    /\ pc' = "iter"
    /\ UNCHANGED <<installed, call, delete_zip_file, remote_status, body, error,
                   qlib_version, file_name, delete_old, target_dir_exists, tree,
                   initial, resp_status_code, gets, sent, namelist, extracted,
                   p_bar>>

\* one iteration of the loop of lines 49-51: the next chunk, of at most
\* chuck_size bytes, is written
WriteChunk ==
    /\ pc = "iter"
    /\ sent < Len(body)
    /\ \E n \in 1..Min(chuck_size, Len(body) - sent) :
         /\ archive' = fp_write(archive, SubSeq(body, sent + 1, sent + n))
         /\ sent' = sent + n
         /\ p_bar' = p_bar + chuck_size
    /\ UNCHANGED <<installed, call, delete_zip_file, remote_status, body, pc,
                   error, qlib_version, file_name, delete_old, target_dir_exists,
                   tree, initial, resp_status_code, gets, fp_open, namelist,
                   extracted>>

WriteFail_Cleanup ==
    /\ pc = "iter"
    /\ sent < Len(body)
    /\ fp_open' = FALSE
    /\ archive' = NoFile
    /\ Raise("OSError:write")
    /\ UNCHANGED <<installed, call, delete_zip_file, remote_status, body,
                   qlib_version, file_name, delete_old, target_dir_exists,
                   tree, initial, resp_status_code, gets, sent, namelist,
                   extracted, p_bar>>

\* iter_content or fp.write raising: the with blocks close fp, nothing else
WriteFail ==
    /\ pc = "iter"
    /\ sent < Len(body)
    /\ fp_open' = FALSE
    /\ Raise("OSError:write")
    /\ UNCHANGED <<installed, call, delete_zip_file, remote_status, body,
                   qlib_version, file_name, delete_old, target_dir_exists,
                   archive, tree, initial, resp_status_code, gets, sent,
                   namelist, extracted, p_bar>>

\* the body is exhausted: the with blocks of lines 47-48 close fp
CloseFile ==
    /\ pc = "iter"
    /\ sent = Len(body)
    /\ fp_open' = FALSE
    /\ pc' = "unzip"
    /\ UNCHANGED <<installed, call, delete_zip_file, remote_status, body, error,
                   qlib_version, file_name, delete_old, target_dir_exists,
                   archive, tree, initial, resp_status_code, gets, sent,
                   namelist, extracted, p_bar>>

\* _unzip up to the loop, lines 59-63: delete_old only logs a warning, then
\* the archive is opened and its listing read
Unzip ==
    /\ pc = "unzip"
    /\ IF IsZip(archive.bytes)
       THEN /\ namelist' = zip_namelist(archive.bytes)
            /\ pc' = "extract"
            /\ error' = error
       ELSE /\ Raise("BadZipFile")
            /\ namelist' = namelist
    /\ UNCHANGED <<installed, call, delete_zip_file, remote_status, body,
                   qlib_version, file_name, delete_old, target_dir_exists,
                   archive, tree, initial, resp_status_code, gets, sent,
                   fp_open, extracted, p_bar>>

\* one iteration of the loop of lines 63-64
Extract ==
    /\ pc = "extract"
    /\ extracted < Len(namelist)
    /\ tree' = zp_extract(tree, namelist[extracted + 1])
    /\ extracted' = extracted + 1
    /\ UNCHANGED <<installed, call, delete_zip_file, remote_status, body, pc,
                   error, qlib_version, file_name, delete_old, target_dir_exists,
                   archive, initial, resp_status_code, gets, sent, fp_open,
                   namelist, p_bar>>

\* zp.extract raising on the next entry
ExtractFail ==
    /\ pc = "extract"
    /\ extracted < Len(namelist)
    /\ Raise("OSError:extract")
    /\ UNCHANGED <<installed, call, delete_zip_file, remote_status, body,
                   qlib_version, file_name, delete_old, target_dir_exists,
                   archive, tree, initial, resp_status_code, gets, sent,
                   fp_open, namelist, extracted, p_bar>>

\* the listing is exhausted: _unzip returns
UnzipReturn ==
    /\ pc = "extract"
    /\ extracted = Len(namelist)
    /\ pc' = "unlink"
    /\ UNCHANGED <<installed, call, delete_zip_file, remote_status, body, error,
                   qlib_version, file_name, delete_old, target_dir_exists,
                   archive, tree, initial, resp_status_code, gets, sent,
                   fp_open, namelist, extracted, p_bar>>

\* lines 54-55: Path has no attribute "unlike", so the call raises
\* AttributeError and the archive stays
Unlink ==
    /\ pc = "unlink"
    /\ IF delete_zip_file
       THEN Raise("AttributeError")
       ELSE pc' = "done" /\ error' = error
    /\ UNCHANGED <<installed, call, delete_zip_file, remote_status, body,
                   qlib_version, file_name, delete_old, target_dir_exists,
                   archive, tree, initial, resp_status_code, gets, sent,
                   fp_open, namelist, extracted, p_bar>>

Next ==
    \/ qlib_data
    \/ csv_data_cn
    \/ Mkdir
    \/ MkdirFail
    \/ Get
    \/ GetFail
    \/ Open
    \/ WriteChunk
    \/ WriteFail
    \/ CloseFile
    \/ Unzip
    \/ Extract
    \/ ExtractFail
    \/ UnzipReturn
    \/ Unlink

Spec == Init /\ [][Next]_vars
SpecVersions == InitVersions /\ [][Next]_vars
SpecNames == InitNames /\ [][Next]_vars

---------------------------------------------------------------------------
(* Properties *)

Responded == resp_status_code # 0
Extracted == {namelist[k] : k \in 1..extracted}
\* _unzip has returned
UnzipDone == pc \in {"unlink", "done"} \/ (pc = "raised" /\ error = "AttributeError")
\* the loop of lines 49-51 has run to its end and fp is closed
DownloadDone ==
    \/ pc \in {"unzip", "extract", "unlink", "done"}
    \/ pc = "raised" /\ error \in {"BadZipFile", "OSError:extract", "AttributeError"}

\* C1: when the remote answers with a status other than 200, the run has
\* ended in HTTPError, the file of the archive's name is as it was before
\* the run (not created, not opened, not written) and no entry is extracted.
C1_HttpErrorWritesNothing ==
    (Responded /\ resp_status_code # 200) =>
        /\ pc = "raised" /\ error = "HTTPError"
        /\ archive = initial.archive
        /\ ~fp_open /\ sent = 0
        /\ namelist = <<>> /\ extracted = 0
        /\ \A p \in Paths : tree[p] # "new"

C1_Witness ==
    /\ resp_status_code = 204
    /\ error = "HTTPError"
    /\ ~initial.archive.exists /\ ~archive.exists

\* C2: with delete_old set, once extraction has completed every category
\* file is one the archive supplies: what the archive lists is there with
\* the archive's content and nothing else is left.
C2_OldDataReplaced ==
    (UnzipDone /\ delete_old) =>
        \A p \in Paths : tree[p] = (IF p \in Extracted THEN "new" ELSE "absent")

\* C3: a run whose download and extraction succeeded ends normally, with
\* the archive file gone if delete_zip_file is set and still there if not.
C3_ZipDeletedIffAsked ==
    UnzipDone =>
        /\ pc # "raised"
        /\ pc = "done" => (archive.exists <=> ~delete_zip_file)

\* C4: the tag is "0.6.1" or "latest", nothing else; for an installed
\* release with at least three numeric components a.b.c it is "0.6.1" iff
\* a.b.c <= 0.6.1 and "latest" otherwise.
C4_TagByVersion ==
    /\ qlib_version \in {<<>>, <<"0", ".", "6", ".", "1">>,
                         <<"l", "a", "t", "e", "s", "t">>}
    /\ (call.op = "qlib_data" /\ pc # "start" /\ Len(installed.rel) >= 3) =>
          LET a == installed.rel[1]
              b == installed.rel[2]
              c == installed.rel[3]
              atMost == a < 0 \/ (a = 0 /\ (b < 6 \/ (b = 6 /\ c <= 1)))
          IN qlib_version = (IF atMost THEN <<"0", ".", "6", ".", "1">>
                             ELSE <<"l", "a", "t", "e", "s", "t">>)

C4_Witness ==
    /\ pc = "done"
    /\ installed.rel = <<0, 6, 1, 10>>
    /\ installed.suf = T_dev
    /\ qlib_version = TagOld

ExampleFileName ==
    <<"q", "l", "i", "b", "_", "d", "a", "t", "a", "_", "u", "s", "_", "1", "d",
      "_", "l", "a", "t", "e", "s", "t", "_", "v", "1", ".", "z", "i", "p">>

\* C5: the file name requested by qlib_data is
\* lower(name)_lower(region)_lower(interval)_<tag>_lower(version).zip; for
\* qlib_data, us, 1d, v1 under release 0.7.0 it is qlib_data_us_1d_latest_v1.zip.
C5_FileNameTemplate ==
    (call.op = "qlib_data" /\ gets > 0) =>
        /\ file_name = lower(call.name) \o <<"_">> \o lower(call.region) \o <<"_">>
                         \o lower(call.interval) \o <<"_">> \o qlib_version
                         \o <<"_">> \o lower(call.version) \o <<".", "z", "i", "p">>
        /\ ( /\ call.name = T_qlib_data /\ call.region = T_us
             /\ call.interval = T_1d /\ call.version = T_v1
             /\ installed = Release(<<0, 7, 0>>) )
           => file_name = ExampleFileName

C5_Witness ==
    /\ gets = 1
    /\ call.name = T_QLIB_DATA /\ call.region = T_Us
    /\ call.interval = T_1D /\ call.version = T_V1
    /\ installed = Release(<<0, 7, 0>>)
    /\ file_name = ExampleFileName

\* C6: while the body is being written the archive file holds exactly the
\* chunks received so far, in order; when the loop has finished it holds
\* exactly the body, whatever file of that name existed before.
C6_FileIsBody ==
    /\ pc = "iter" => (archive.exists /\ archive.bytes = SubSeq(body, 1, sent))
    /\ DownloadDone => archive = [exists |-> TRUE, bytes |-> body]

C6_Witness ==
    /\ pc = "unzip"
    /\ initial.archive = OldArchive
    /\ Len(body) = 3
    /\ p_bar = 2 * chuck_size
    /\ archive.bytes = body

\* C7: csv_data_cn requests csv_data_cn.zip whatever release is installed,
\* and runs _download_data with delete_old true.
C7_CsvFixedName ==
    (call.op = "csv_data_cn" /\ pc # "start") =>
        /\ file_name = <<"c", "s", "v", "_", "d", "a", "t", "a", "_", "c", "n",
                         ".", "z", "i", "p">>
        /\ delete_old = TRUE
        /\ qlib_version = <<>>

C7_Witness ==
    /\ call.op = "csv_data_cn"
    /\ gets = 1
    /\ installed.rel = <<0, 6, 1>>
    /\ delete_old

\* C8, part by part
C8_MkdirBeforeGet == gets > 0 => target_dir_exists
C8_ExtractAfterClose ==
    (namelist # <<>> \/ extracted > 0) =>
        (sent = Len(body) /\ ~fp_open /\ archive.bytes = body)
C8_DeleteOldBeforeExtract ==
    (delete_old /\ extracted > 0) => \A p \in Paths : tree[p] # "old"
C8_ListingOrder ==
    /\ extracted <= Len(namelist)
    /\ \A p \in Paths : tree[p] = "new" <=> p \in Extracted
C8_RemoveAfterExtract ==
    (pc \in {"iter", "unzip", "extract", "unlink"}) => archive.exists

\* C8: the directory exists before the GET; nothing is extracted before the
\* body is written and the file closed; with delete_old the old category
\* directories are gone before the first entry is extracted; entries are
\* extracted in listing order; the archive is removed only after the last.
C8_StepOrder ==
    /\ C8_MkdirBeforeGet
    /\ C8_ExtractAfterClose
    /\ C8_DeleteOldBeforeExtract
    /\ C8_ListingOrder
    /\ C8_RemoveAfterExtract

Ended == pc \in {"done", "raised"}

\* an ended run takes no further step; a failure while writing leaves the
\* chunks written so far in the archive file; a failure extracting entry k
\* leaves entries 1..k-1 extracted and every other file as it was
C9_PartialResultsStay ==
    /\ Ended => ~ENABLED Next
    /\ error = "OSError:write" =>
          /\ sent < Len(body)
          /\ archive = [exists |-> TRUE, bytes |-> SubSeq(body, 1, sent)]
    /\ error = "OSError:extract" =>
          /\ extracted < Len(namelist)
          /\ archive = [exists |-> TRUE, bytes |-> body]
          /\ \A p \in Paths :
                tree[p] = (IF p \in Extracted THEN "new" ELSE initial.tree[p])

\* C9 as stated: every invocation issues exactly one GET, repeats no step
\* after a failure and leaves partial results in place.
C9_ExactlyOneGet ==
    /\ Ended => gets = 1
    /\ C9_PartialResultsStay

\* C9 amended: every invocation issues at most one GET, and exactly one once
\* the target directory has been created and the request made; it repeats
\* no step after a failure and leaves partial results in place.
C9_NoRetryNoCleanup ==
    /\ gets <= 1
    /\ pc \in {"open", "iter", "unzip", "extract", "unlink", "done"} => gets = 1
    /\ (Ended /\ error \notin {"TypeError", "InvalidVersion", "OSError:mkdir"})
          => gets = 1
    /\ C9_PartialResultsStay

C9_Witness ==
    /\ error = "OSError:write"
    /\ sent = 2
    /\ Len(body) = 3
    /\ archive.bytes = SubSeq(body, 1, 2)
    /\ gets = 1

\* C10: when the remote answers with a status other than 200, the target
\* directory exists and every file under it, the archive's name included,
\* is as it was before the run, whatever delete_old and delete_zip_file are.
C10_OnlyMkdirOnHttpError ==
    (Responded /\ resp_status_code # 200) =>
        /\ target_dir_exists
        /\ tree = initial.tree
        /\ archive = initial.archive

C10_Witness ==
    /\ resp_status_code = 404
    /\ pc = "raised"
    /\ delete_old /\ delete_zip_file
    /\ initial.archive = OldArchive
    /\ \A p \in Paths : initial.tree[p] = "old" /\ tree[p] = "old"

=============================================================================
